---------------------------- MODULE Spec2Model ----------------------------
(***************************************************************************)
(* A state-machine model of strava2gpx.py: one run of main() over a Strava *)
(* export (a directory or a zip archive), with the file system, the        *)
(* manifest loader, the three filters and the recursive format dispatcher. *)
(*                                                                         *)
(* Strings are sequences of one-character strings, so that endswith,       *)
(* slicing, replace, lower, basename and join are computed as Python       *)
(* computes them.  The file system is the set of paths that exist.         *)
(*                                                                         *)
(* list(csv.DictReader(...)) reads all rows at once; the model fixes the   *)
(* number of rows and columns in the initial state and draws the content   *)
(* of a row when the loop binds it (LoopIter), which is the moment the     *)
(* program first looks at it.  The verbose flag only adds prints and is    *)
(* left out.  The export is consistent: every file the manifest names is   *)
(* in the directory or the archive, and the archive holds activities.csv.  *)
(* The external decoder and converter are nondeterministic: each call      *)
(* either succeeds or raises.                                              *)
(***************************************************************************)
EXTENDS Integers, Sequences, FiniteSets, TLC

\* ------------------------------------------------------------------ bounds
\* Largest number of data rows of the manifest.
MaxRows == 2

\* Largest timestamp of a FIT message, in seconds after the first.
MaxTime == 2

\* Largest number of lap messages of a FIT file.
MaxLaps == 2

\* Largest number of record messages of a FIT file.
MaxRecords == 2

\* ------------------------------------------------------ program constants
\* Positions (0-based) of the fields in the header of activities.csv.
IdIndex == 0
DateIndex == 1
TypeIndex == 3
GearIndex == 9
FilenameIndex == 10
\* Exit status of print_usage_error.
UsageExitStatus == 2

\* ----------------------------------------------------------------- strings
Range(s) == {s[i] : i \in DOMAIN s}

Max2(a, b) == IF a >= b THEN a ELSE b
Min2(a, b) == IF a <= b THEN a ELSE b

\* str.endswith
EndsWith(s, suffix) ==
    /\ Len(s) >= Len(suffix)
    /\ SubSeq(s, Len(s) - Len(suffix) + 1, Len(s)) = suffix

\* str.startswith at (1-based) position i
MatchAt(s, i, old) ==
    /\ i + Len(old) - 1 <= Len(s)
    /\ SubSeq(s, i, i + Len(old) - 1) = old

\* Python slice s[a:b] with possibly negative a, b
PySlice(s, a, b) ==
    LET n == Len(s)
        lo == IF a < 0 THEN Max2(n + a, 0) ELSE Min2(a, n)
        hi == IF b < 0 THEN Max2(n + b, 0) ELSE Min2(b, n)
    IN  SubSeq(s, lo + 1, hi)

\* str.replace(old, new): every non-overlapping occurrence, left to right
RECURSIVE ReplaceFrom(_, _, _, _)
ReplaceFrom(s, i, old, new) ==
    IF i > Len(s) THEN <<>>
    ELSE IF MatchAt(s, i, old)
         THEN new \o ReplaceFrom(s, i + Len(old), old, new)
         ELSE <<s[i]>> \o ReplaceFrom(s, i + 1, old, new)

Replace(s, old, new) == ReplaceFrom(s, 1, old, new)

\* str.lower on the letters the model uses
LowerChar(c) ==
    CASE c = "R" -> "r"
      [] c = "U" -> "u"
      [] c = "N" -> "n"
      [] c = "I" -> "i"
      [] c = "D" -> "d"
      [] c = "E" -> "e"
      [] c = "B" -> "b"
      [] c = "K" -> "k"
      [] OTHER -> c

Lower(s) == [i \in DOMAIN s |-> LowerChar(s[i])]

\* os.path.basename: what follows the last "/"
RECURSIVE Basename(_)
Basename(p) ==
    IF \E i \in DOMAIN p : p[i] = "/"
    THEN Basename(Tail(p))
    ELSE p

\* os.path.join of two components
Join(a, b) ==
    IF b # <<>> /\ b[1] = "/" THEN b
    ELSE IF a = <<>> \/ a[Len(a)] = "/" THEN a \o b
    ELSE a \o <<"/">> \o b

DOT_FIT == <<".", "f", "i", "t">>
DOT_TCX == <<".", "t", "c", "x">>
DOT_GPX == <<".", "g", "p", "x">>
DOT_GZ == <<".", "g", "z">>
DOT_CSV == <<".", "c", "s", "v">>
DOT_TXT == <<".", "t", "x", "t">>


\* Deepest nesting of .gz layers around a track file of the export.
MaxGzLayers == 2

\* ---------------------------------------------------------------- the world
\* args.strava_export is one of: an unzipped export directory, an export
\* archive, a path that does not exist.
EXPORT_DIR == <<"e">>
EXPORT_ZIP == <<"x", ".", "z", "i", "p">>
MISSING_PATH == <<"n">>
InputPaths == {EXPORT_DIR, EXPORT_ZIP, MISSING_PATH}

\* args.output_dir when -o is given; <<>> stands for None.
OUTPUT_DIR == <<"o">>

ACTIVITIES_CSV ==
    <<"a", "c", "t", "i", "v", "i", "t", "i", "e", "s">> \o DOT_CSV

TMP_DIR == <<"/", "t">>

\* A track file wrapped in n .gz layers.
RECURSIVE Gzipped(_, _)
Gzipped(name, n) == IF n = 0 THEN name ELSE Gzipped(name, n - 1) \o DOT_GZ

FILE_STEM == <<"m", "/", "a">>
TerminalSuffixes == {DOT_FIT, DOT_TCX, DOT_GPX}

\* Values of the manifest's filename column: empty, a track file in each
\* terminal format under 0..MaxGzLayers .gz layers, an unsupported file.
TrackFileNames ==
    {Gzipped(FILE_STEM \o t, n) : t \in TerminalSuffixes, n \in 0..MaxGzLayers}
        \cup {FILE_STEM \o DOT_TXT}
FileNames == {<<>>} \cup TrackFileNames

ActivityTypes == {<<"R", "u", "n">>, <<"R", "i", "d", "e">>}
ActivityGear == {<<>>, <<"B", "i", "k", "e">>}
Years == {2022, 2023}

\* The four notations date_format tries, in order.
DateFormats ==
    <<"%Y-%m-%dT%H:%M:%S.%fZ", "%Y-%m-%dT%H:%M:%SZ", "%Y-%m-%d %H:%M:%S",
      "%b %d, %Y, %I:%M:%S %p">>

\* The text of the manifest's date column: the notation it is written in and
\* the year it names (month, day and time of day are the same in every row).
DateTexts ==
    {[notation |-> "%b %d, %Y, %I:%M:%S %p", year |-> y] : y \in Years}
        \cup {[notation |-> "%d/%m/%Y", year |-> y] : y \in {2023}}

\* The rows a manifest is made of (type, date, gear and filename columns):
\* every combination of type, date and gear on a plain .gpx file or on no
\* file, and every file name on one combination of type, date and gear.
RowValues ==
    [type : ActivityTypes, date : DateTexts, gear : ActivityGear,
     filename : {<<>>, FILE_STEM \o DOT_GPX}]
        \cup [type : {<<"R", "u", "n">>},
              date : {[notation |-> "%b %d, %Y, %I:%M:%S %p", year |-> 2023]},
              gear : {<<"B", "i", "k", "e">>},
              filename : FileNames]

\* What -ft, -y and -g can hold; <<>> stands for None (the flag not given).
TypeFilters == {<<>>, << <<"R", "U", "N">> >>}
YearFilters == {<<>>, << <<"2", "0", "2", "3">> >>}
GearFilters == {<<>>, << <<"b", "i", "k", "e">> >>}

\* Column counts of the manifests the model loads.
ColumnCounts == {8, 9, 10, 11, 12}

\* The files of the export directory, and the archive.
DirectoryTrackFiles == {Join(EXPORT_DIR, f) : f \in TrackFileNames}
DirectoryManifest == Join(EXPORT_DIR, ACTIVITIES_CSV)
InitialFiles == {EXPORT_ZIP, DirectoryManifest} \cup DirectoryTrackFiles

\* --------------------------------------------------------- Python values
\* A local of main that is not assigned yet, None, or an int.
Unbound == <<"unbound">>
PyNone == <<"None">>
PyInt(n) == <<"int", n>>
IsInt(v) == v[1] = "int"

\* activity = None (line 446): a descriptor with every field empty.
NoneActivity ==
    [id |-> <<>>, type |-> <<>>, date |-> [notation |-> "", year |-> 0],
     gear |-> <<>>, filename |-> <<>>, activity_count |-> 0,
     csv_temp_file |-> <<>>]

VARIABLES
    args,                 \* the parsed command line
    ncols, nrows,         \* the manifest: columns of its header, data rows
    files,                \* the paths that exist
    pc,                   \* where main is
    zip_file,             \* extract_zip's first result: TRUE for a ZipFile
    activity_csv,         \* extract_zip's second result
    activities,           \* what get_activities_csv returned
    activity,             \* main's loop variable
    activity_control_var,
    filter_control_var,
    ac_count,
    stack,                \* the calls below main: check_zip, convert_activity
    printed,              \* the lines the run printed that the claims read
    error,                \* the exception that ended the run, or "none"
    exit_status,          \* -1 while running
    dispatched,           \* history: rows handed to check_zip, by position
    loop_completed,       \* history: the for loop ran out of rows
    fit_file,             \* the parsed FitFile: its lap and record messages
    fit_pc,               \* where convert_fit_tcx is
    tcx_document          \* the document convert_fit_tcx builds

vars ==
    <<args, ncols, nrows, files, pc, zip_file, activity_csv, activities,
      activity, activity_control_var, filter_control_var, ac_count, stack,
      printed, error, exit_status, dispatched,
      loop_completed, fit_file, fit_pc, tcx_document>>

\* The variables of the FIT to TCX transformer.
fitvars == <<fit_file, fit_pc, tcx_document>>

Args ==
    [strava_export : InputPaths,
     output_dir : {<<>>, OUTPUT_DIR},
     filter_types : TypeFilters,
     filter_years : YearFilters,
     filter_gear : GearFilters,
     list_types : BOOLEAN,
     list_gear : BOOLEAN]

NoActivities == [loaded |-> FALSE, activity_count |-> 0, csv_temp_file |-> <<>>]

NothingPrinted ==
    [usage |-> FALSE, listing |-> FALSE, listed |-> {}, unrecognized |-> {},
     summary |-> <<>>]

MainInit ==
    /\ args \in Args
    /\ ncols \in ColumnCounts
    /\ nrows \in 0..MaxRows
    /\ files = InitialFiles
    /\ pc = "extract_zip"
    /\ zip_file = FALSE
    /\ activity_csv = <<>>
    /\ activities = NoActivities
    /\ activity = NoneActivity
    /\ activity_control_var = Unbound
    /\ filter_control_var = Unbound
    /\ ac_count = Unbound
    /\ stack = <<>>
    /\ printed = NothingPrinted
    /\ error = "none"
    /\ exit_status = -1
    /\ dispatched = <<>>
    /\ loop_completed = FALSE

\* A FitFile that has not been opened, and no document.
NoFitFile == [laps |-> <<>>, records |-> <<>>]
NoDocument == [Activities |-> FALSE, Activity |-> <<>>, Lap |-> <<>>]

\* main starts with no FIT file open.
Init ==
    /\ MainInit
    /\ fit_file = NoFitFile
    /\ fit_pc = "idle"
    /\ tcx_document = NoDocument

\* An uncaught exception: the traceback is printed, the calls unwind without
\* running any handler (the code has none) and the interpreter exits with 1.
Raise(exception) ==
    /\ error' = exception
    /\ exit_status' = 1
    /\ stack' = <<>>
    /\ pc' = "done"

\* extract_zip (lines 358-366), called at line 448.
IsDir(path) == path = EXPORT_DIR

ExtractZip ==
    /\ pc = "extract_zip"
    /\ IF IsDir(args.strava_export)
       THEN /\ zip_file' = FALSE
            /\ activity_csv' = Join(args.strava_export, ACTIVITIES_CSV)
            /\ pc' = "mode"
            /\ UNCHANGED <<error, exit_status, stack>>
       ELSE IF args.strava_export \in files
       THEN /\ zip_file' = TRUE
            /\ activity_csv' = ACTIVITIES_CSV
            /\ pc' = "mode"
            /\ UNCHANGED <<error, exit_status, stack>>
       ELSE /\ Raise("FileNotFoundError")
            /\ UNCHANGED <<zip_file, activity_csv>>
    /\ UNCHANGED <<fitvars, args, ncols, nrows, files, activities, activity,
                   activity_control_var, filter_control_var, ac_count,
                   printed, dispatched, loop_completed>>

\* A name from tempfile.NamedTemporaryFile(suffix=...): a random stem that
\* no existing file has (here the first unused number), in the temporary
\* directory, followed by the suffix.
TempStem(n) == Join(TMP_DIR, <<ToString(n)>>)

StemInUse(n, fs) == \E f \in fs : MatchAt(f, 1, TempStem(n))

TempName(fs, suffix) ==
    LET n == CHOOSE m \in 1..(Cardinality(fs) + 1) :
                 /\ ~StemInUse(m, fs)
                 /\ \A l \in 1..(m - 1) : StemInUse(l, fs)
    IN  TempStem(n) \o suffix

\* csv.DictReader: the header of a table of n columns (a column is named by
\* its number here), which is the key set of every row.
Header(n) == [i \in 1..n |-> ToString(i)]

\* keys (lines 322-323): the header and the two appended names.
Keys(n) == Header(n) \o <<"count", "csv_file_name">>

FieldIndexes == <<IdIndex, DateIndex, TypeIndex, GearIndex, FilenameIndex>>

\* Lines 322-340 on a table of n columns with at least one row: keys[i]
\* raises IndexError past the end of keys, and a[field] raises KeyError
\* for a field that is no column of the table.
FieldError(n) ==
    IF \E k \in DOMAIN FieldIndexes : FieldIndexes[k] + 1 > Len(Keys(n))
    THEN "IndexError"
    ELSE IF \E k \in DOMAIN FieldIndexes :
                Keys(n)[FieldIndexes[k] + 1] \notin Range(Header(n))
    THEN "KeyError"
    ELSE "none"

\* get_activities_csv (lines 309-340) on the manifest of the run, with the
\* files fs.  The result carries the files afterwards and what
\* every descriptor of the returned list shares; an empty list carries
\* nothing.
RECURSIVE GetActivitiesCsv(_, _, _)
GetActivitiesCsv(zf, csv_file_name, fs) ==
    IF zf
    THEN LET unzipped_file == TempName(fs, DOT_CSV)
         IN  GetActivitiesCsv(FALSE, unzipped_file, fs \cup {unzipped_file})
    ELSE IF csv_file_name \notin fs
    THEN [error |-> "FileNotFoundError", files |-> fs,
          activities |-> NoActivities]
    ELSE IF nrows = 0
    THEN [error |-> "none", files |-> fs,
          activities |-> [loaded |-> TRUE, activity_count |-> 0,
                          csv_temp_file |-> <<>>]]
    ELSE IF FieldError(ncols) # "none"
    THEN [error |-> FieldError(ncols), files |-> fs,
          activities |-> NoActivities]
    ELSE [error |-> "none", files |-> fs,
          activities |-> [loaded |-> TRUE, activity_count |-> nrows,
                          csv_temp_file |-> csv_file_name]]

\* A variant of ListingConflict that tests the output directory only.
ListingConflict_OutputOnly(a) == a.output_dir # <<>>

\* The test of lines 450 and 470.
ListingConflict(a) == a.output_dir # <<>> \/ a.filter_types # <<>>

\* print_usage_error (lines 302-306).
PrintUsageError ==
    /\ printed' = [printed EXCEPT !.usage = TRUE]
    /\ error' = "SystemExit"
    /\ exit_status' = UsageExitStatus
    /\ pc' = "done"
    /\ UNCHANGED <<files, activities, ac_count,
                   activity_control_var, filter_control_var, stack>>

\* Lines 455-467 and 475-487: load the manifest and print the sorted set of
\* the values of one column; values is what the rows hold in that column.
Listing(values) ==
    LET r == GetActivitiesCsv(zip_file, activity_csv, files)
    IN  /\ files' = r.files
        /\ activities' = r.activities
        /\ UNCHANGED activity_control_var
        /\ IF r.error # "none"
           THEN /\ Raise(r.error)
                /\ printed' = [printed EXCEPT !.listing = TRUE]
                /\ UNCHANGED <<ac_count, filter_control_var>>
           ELSE /\ printed' = [printed EXCEPT !.listing = TRUE,
                                              !.listed = values]
                /\ IF values # {}
                   THEN ac_count' = PyNone /\ filter_control_var' = PyNone
                   ELSE UNCHANGED <<ac_count, filter_control_var>>
                /\ pc' = "summary"
                /\ UNCHANGED <<error, exit_status, stack>>

\* main, lines 449-467: --list-types.
ListTypes ==
    /\ pc = "mode"
    /\ args.list_types
    /\ IF ListingConflict(args)
       THEN PrintUsageError
       ELSE \E column \in [1..nrows -> ActivityTypes] : Listing(Range(column))
    /\ UNCHANGED <<fitvars, args, ncols, nrows, zip_file, activity_csv, activity,
                   dispatched, loop_completed>>

\* main, lines 469-487: --list-gear.
ListGear ==
    /\ pc = "mode"
    /\ ~args.list_types
    /\ args.list_gear
    /\ IF ListingConflict(args)
       THEN PrintUsageError
       ELSE \E column \in [1..nrows -> ActivityGear] : Listing(Range(column))
    /\ UNCHANGED <<fitvars, args, ncols, nrows, zip_file, activity_csv, activity,
                   dispatched, loop_completed>>

\* main, lines 489-497: the conversion mode up to the first iteration.
StartConversion ==
    /\ pc = "mode"
    /\ ~args.list_types
    /\ ~args.list_gear
    /\ IF args.output_dir = <<>>
       THEN PrintUsageError
       ELSE LET r == GetActivitiesCsv(zip_file, activity_csv, files)
            IN  /\ activity_control_var' = PyInt(0)
                /\ filter_control_var' = PyInt(0)
                /\ files' = r.files
                /\ activities' = r.activities
                /\ UNCHANGED <<printed, ac_count>>
                /\ IF r.error # "none"
                   THEN Raise(r.error)
                   ELSE /\ pc' = "loop"
                        /\ UNCHANGED <<error, exit_status, stack>>
    /\ UNCHANGED <<fitvars, args, ncols, nrows, zip_file, activity_csv, activity,
                   dispatched, loop_completed>>

\* date_format (lines 145-157): the first notation that parses the text
\* gives the datetime; none raises ValueError.
DateFormatRaises(text) == text.notation \notin Range(DateFormats)

DateFormat(text) ==
    [year |-> text.year, month |-> 1, day |-> 5, hour |-> 10, minute |-> 0,
     second |-> 0]

\* The decimal digits of n, zero-padded to width.
RECURSIVE Digits(_, _)
Digits(n, width) ==
    IF width = 0 THEN <<>>
    ELSE Digits(n \div 10, width - 1) \o <<ToString(n % 10)>>

\* datetime.strftime("%Y-%m-%dT%H%M%S") (line 503).
Strftime(dt) ==
    Digits(dt.year, 4) \o <<"-">> \o Digits(dt.month, 2) \o <<"-">>
        \o Digits(dt.day, 2) \o <<"T">> \o Digits(dt.hour, 2)
        \o Digits(dt.minute, 2) \o Digits(dt.second, 2)

\* matches_filter_types (lines 198-206).
matches_filter_types(a, filter_types) ==
    IF filter_types = <<>> THEN TRUE
    ELSE \E i \in DOMAIN filter_types : Lower(filter_types[i]) = Lower(a.type)

\* matches_filter_years (lines 209-216).
matches_filter_years(activity_date, filter_years) ==
    IF filter_years = <<>> THEN TRUE
    ELSE PySlice(activity_date, 0, 4) \in Range(filter_years)

\* matches_filter_gear (lines 219-227).
matches_filter_gear(a, filter_gear) ==
    IF filter_gear = <<>> THEN TRUE
    ELSE \E i \in DOMAIN filter_gear : Lower(filter_gear[i]) = Lower(a.gear)

\* A variant of FilterVerdict that leaves out the gear test.
FilterVerdict_GearUnchecked(a, activity_date) ==
    IF ~matches_filter_years(activity_date, args.filter_years) THEN "year"
    ELSE IF ~matches_filter_types(a, args.filter_types) THEN "type"
    ELSE "pass"

\* The three tests of lines 512-528, in the order main makes them: the
\* filter that rejects the row, or "pass".
FilterVerdict(a, activity_date) ==
    IF ~matches_filter_years(activity_date, args.filter_years) THEN "year"
    ELSE IF ~matches_filter_types(a, args.filter_types) THEN "type"
    ELSE IF ~matches_filter_gear(a, args.filter_gear) THEN "gear"
    ELSE "pass"

\* Lines 530-531.
GpxFilePath(a, activity_date) ==
    Join(args.output_dir,
         activity_date \o <<"_">> \o a.type \o <<"_">> \o a.id \o DOT_GPX)

Frame(fn, source, target) ==
    [fn |-> fn, at |-> "entry", source |-> source, target |-> target,
     temp |-> <<>>]

Top == stack[Len(stack)]
Pop(n) == SubSeq(stack, 1, Len(stack) - n)

\* One iteration of the for loop of main (lines 497-536) up to the call of
\* check_zip; the row the loop binds holds type, date, gear and filename.
LoopIter ==
    /\ pc = "loop"
    /\ activity_control_var[2] < activities.activity_count
    /\ \E row \in RowValues :
        LET k == activity_control_var[2] + 1
            date == row.date
            filename == row.filename
            a == [id |-> <<ToString(k)>>, type |-> row.type, date |-> date,
                  gear |-> row.gear, filename |-> filename,
                  activity_count |-> activities.activity_count,
                  csv_temp_file |-> activities.csv_temp_file]
            activity_date == Strftime(DateFormat(date))
            activity_file_name ==
                IF zip_file THEN filename
                ELSE Join(args.strava_export, filename)
        IN  /\ activity' = a
            /\ activity_control_var' = PyInt(k)
            /\ IF DateFormatRaises(date)
               THEN /\ Raise("ValueError")
                    /\ UNCHANGED <<filter_control_var, dispatched>>
               ELSE IF filename = <<>>
               THEN UNCHANGED <<filter_control_var, dispatched, stack, pc,
                                error, exit_status>>
               ELSE IF FilterVerdict(a, activity_date) # "pass"
               THEN /\ filter_control_var' = PyInt(filter_control_var[2] + 1)
                    /\ UNCHANGED <<dispatched, stack, pc, error, exit_status>>
               ELSE /\ stack' = <<Frame("check_zip", activity_file_name,
                                        GpxFilePath(a, activity_date))>>
                    /\ dispatched' = Append(dispatched, k)
                    /\ pc' = "convert"
                    /\ UNCHANGED <<filter_control_var, error, exit_status>>
    /\ UNCHANGED <<fitvars, args, ncols, nrows, files, zip_file, activity_csv,
                   activities, ac_count, printed, loop_completed>>

\* check_zip (lines 343-355) up to its call of convert_activity.
CheckZipCall ==
    /\ pc = "convert"
    /\ Top.fn = "check_zip"
    /\ Top.at = "entry"
    /\ IF zip_file
       THEN LET unzipped_file ==
                    TempName(files, Basename(Top.source))
            IN  /\ files' = files \cup {unzipped_file}
                /\ stack' = Pop(1)
                      \o <<[Top EXCEPT !.at = "called",
                                       !.temp = unzipped_file],
                           Frame("convert_activity", unzipped_file,
                                 Top.target)>>
       ELSE /\ stack' = Pop(1)
                      \o <<[Top EXCEPT !.at = "called"],
                           Frame("convert_activity", Top.source, Top.target)>>
            /\ UNCHANGED files
    /\ UNCHANGED <<fitvars, args, ncols, nrows, pc, zip_file, activity_csv, activities,
                   activity, activity_control_var, filter_control_var,
                   ac_count, printed, error, exit_status, dispatched,
                   loop_completed>>

\* check_zip after convert_activity returned (line 353), back in the loop.
CheckZipReturn ==
    /\ pc = "convert"
    /\ Top.fn = "check_zip"
    /\ Top.at = "called"
    /\ files' = IF zip_file THEN files \ {Top.temp} ELSE files
    /\ stack' = Pop(1)
    /\ pc' = "loop"
    /\ UNCHANGED <<fitvars, args, ncols, nrows, zip_file, activity_csv, activities,
                   activity, activity_control_var, filter_control_var,
                   ac_count, printed, error, exit_status, dispatched, loop_completed>>

\* A variant of FormatState whose last branch is the copy, not the
\* diagnostic.
FormatState_CopyByDefault(activity_file_name) ==
    IF \/ EndsWith(activity_file_name, DOT_FIT \o DOT_GZ)
       \/ EndsWith(activity_file_name, DOT_TCX \o DOT_GZ)
       \/ EndsWith(activity_file_name, DOT_GPX \o DOT_GZ)
    THEN "compressed"
    ELSE IF EndsWith(activity_file_name, DOT_FIT) THEN "fit"
    ELSE IF EndsWith(activity_file_name, DOT_TCX) THEN "tcx"
    ELSE "gpx"

\* The branch convert_activity takes on a name (lines 268-298).
FormatState(activity_file_name) ==
    IF \/ EndsWith(activity_file_name, DOT_FIT \o DOT_GZ)
       \/ EndsWith(activity_file_name, DOT_TCX \o DOT_GZ)
       \/ EndsWith(activity_file_name, DOT_GPX \o DOT_GZ)
    THEN "compressed"
    ELSE IF EndsWith(activity_file_name, DOT_FIT) THEN "fit"
    ELSE IF EndsWith(activity_file_name, DOT_TCX) THEN "tcx"
    ELSE IF EndsWith(activity_file_name, DOT_GPX) THEN "gpx"
    ELSE "unrecognized"

\* A variant of GunzipSuffix whose slice starts one character late.
GunzipSuffix_OffByOne(activity_file_name) ==
    PySlice(activity_file_name, -6, -3)

\* The suffix of the gunzipped temporary file (line 273).
GunzipSuffix(activity_file_name) == PySlice(activity_file_name, -7, -3)

AtEntryOf(state) ==
    /\ pc = "convert"
    /\ Top.fn = "convert_activity"
    /\ Top.at = "entry"
    /\ FormatState(Top.source) = state

MainUnchanged ==
    UNCHANGED <<fitvars, args, ncols, nrows, zip_file, activity_csv, activities,
                activity, activity_control_var, filter_control_var, ac_count,
                dispatched, loop_completed>>

\* convert_activity, lines 268-278: gunzip into a temporary file and recurse.
ConvertCompressed ==
    /\ AtEntryOf("compressed")
    /\ LET gunzipped_file ==
               TempName(files, GunzipSuffix(Top.source))
       IN  /\ files' = files \cup {gunzipped_file}
           /\ stack' = Pop(1)
                 \o <<[Top EXCEPT !.at = "called", !.temp = gunzipped_file],
                      Frame("convert_activity", gunzipped_file, Top.target)>>
    /\ UNCHANGED <<pc, printed, error, exit_status>>
    /\ MainUnchanged

\* convert_activity, lines 279-280, after the nested call returned.
ConvertCompressedReturn ==
    /\ pc = "convert"
    /\ Top.fn = "convert_activity"
    /\ Top.at = "called"
    /\ files' = files \ {Top.temp}
    /\ stack' = Pop(1)
    /\ UNCHANGED <<pc, printed, error, exit_status>>
    /\ MainUnchanged

\* convert_activity, line 283, and gps_track_convert, lines 242-252:
\* convert_fit_tcx raises (StopIteration from next() at line 132 when the
\* source has no session message), or the intermediate .tcx is written.
ConvertFit ==
    /\ AtEntryOf("fit")
    /\ \E has_session \in BOOLEAN :
        IF ~has_session
        THEN /\ Raise("StopIteration")
             /\ UNCHANGED files
        ELSE LET output_file_path == Replace(Top.target, DOT_GPX, DOT_TCX)
             IN  /\ files' = files \cup {output_file_path}
                 /\ stack' = Pop(1)
                       \o <<[Top EXCEPT !.at = "called"],
                            [fn |-> "gps_track_convert", at |-> "written",
                             source |-> Top.source,
                             target |-> output_file_path,
                             temp |-> output_file_path]>>
                 /\ UNCHANGED <<pc, error, exit_status>>
    /\ UNCHANGED printed
    /\ MainUnchanged

\* gps_track_convert, lines 253-254: write_gpx_file (lines 230-235), where
\* the external converter convert_tcx_gpx may raise, then the unlink; with
\* that gps_track_convert and the convert_activity that called it return.
GpsWriteGpx ==
    /\ pc = "convert"
    /\ Top.fn = "gps_track_convert"
    /\ \E converted \in BOOLEAN :
        IF ~converted
        THEN /\ Raise("ConverterError")
             /\ UNCHANGED files
        ELSE LET dest == Replace(Top.target, DOT_TCX, DOT_GPX)
             IN  /\ files' = (files \cup {dest}) \ {Top.target}
                 /\ stack' = Pop(2)
                 /\ UNCHANGED <<pc, error, exit_status>>
    /\ UNCHANGED printed
    /\ MainUnchanged

\* convert_activity, lines 285-291: the line-normalized temporary copy.
ConvertTcx ==
    /\ AtEntryOf("tcx")
    /\ LET temp == TempName(files, <<>>)
       IN  /\ files' = files \cup {temp}
           /\ stack' = Pop(1)
                 \o <<[Top EXCEPT !.at = "normalized", !.temp = temp]>>
    /\ UNCHANGED <<pc, printed, error, exit_status>>
    /\ MainUnchanged

\* convert_activity, lines 292-293: gps_track_convert(temp, target, "tcx")
\* (lines 255-256), where convert_tcx_gpx may raise, then the unlink.
ConvertTcxHandOff ==
    /\ pc = "convert"
    /\ Top.fn = "convert_activity"
    /\ Top.at = "normalized"
    /\ \E converted \in BOOLEAN :
        IF ~converted
        THEN /\ Raise("ConverterError")
             /\ UNCHANGED files
        ELSE LET dest == Replace(Top.target, DOT_TCX, DOT_GPX)
             IN  /\ files' = (files \cup {dest}) \ {Top.temp}
                 /\ stack' = Pop(1)
                 /\ UNCHANGED <<pc, error, exit_status>>
    /\ UNCHANGED printed
    /\ MainUnchanged

\* convert_activity, lines 295-296: shutil.copyfile.
ConvertGpx ==
    /\ AtEntryOf("gpx")
    /\ files' = files \cup {Top.target}
    /\ stack' = Pop(1)
    /\ UNCHANGED <<pc, printed, error, exit_status>>
    /\ MainUnchanged

\* convert_activity, lines 298-299: the diagnostic.
ConvertUnrecognized ==
    /\ AtEntryOf("unrecognized")
    /\ printed' = [printed EXCEPT
                      !.unrecognized = @ \cup {Top.source}]
    /\ stack' = Pop(1)
    /\ UNCHANGED <<pc, files, error, exit_status>>
    /\ MainUnchanged

\* clear_temp (lines 369-377) on the files fs.
ClearTemp(stray_file, fs) ==
    IF stray_file \in fs THEN fs \ {stray_file} ELSE fs

\* main, lines 538-540, when the for loop has run out of rows.
LoopExit ==
    /\ pc = "loop"
    /\ activity_control_var[2] = activities.activity_count
    /\ loop_completed' = TRUE
    /\ IF activity = NoneActivity
       THEN /\ Raise("TypeError")
            /\ UNCHANGED <<ac_count, files>>
       ELSE /\ ac_count' = PyInt(activity.activity_count)
            /\ files' = ClearTemp(activity.csv_temp_file, files)
            /\ pc' = "summary"
            /\ UNCHANGED <<error, exit_status, stack>>
    /\ UNCHANGED <<fitvars, args, ncols, nrows, zip_file, activity_csv, activities,
                   activity, activity_control_var, filter_control_var,
                   printed, dispatched>>

\* main, lines 542-545: the summary line.
Summary ==
    /\ pc = "summary"
    /\ IF ac_count = Unbound \/ filter_control_var = Unbound
       THEN /\ Raise("UnboundLocalError")
            /\ UNCHANGED printed
       ELSE /\ printed' = [printed EXCEPT
                              !.summary = <<ac_count, filter_control_var>>]
            /\ exit_status' = 0
            /\ pc' = "done"
            /\ UNCHANGED <<error, stack>>
    /\ UNCHANGED <<fitvars, args, ncols, nrows, files, zip_file, activity_csv,
                   activities, activity, activity_control_var,
                   filter_control_var, ac_count, dispatched, loop_completed>>

Next ==
    \/ ExtractZip
    \/ ListTypes
    \/ ListGear
    \/ StartConversion
    \/ LoopIter
    \/ CheckZipCall
    \/ CheckZipReturn
    \/ ConvertCompressed
    \/ ConvertCompressedReturn
    \/ ConvertFit
    \/ GpsWriteGpx
    \/ ConvertTcx
    \/ ConvertTcxHandOff
    \/ ConvertGpx
    \/ ConvertUnrecognized
    \/ LoopExit
    \/ Summary

Spec == Init /\ [][Next]_vars

\* ------------------------------------------- the FIT to TCX transformer
\* convert_fit_tcx and the functions it calls, on their own: the parsed FIT
\* file is drawn in the initial state, main's variables stay where a run
\* over the export directory starts.  A timestamp is a whole number of
\* seconds after the first one; every lap and record message carries one.
mainvars ==
    <<args, ncols, nrows, files, pc, zip_file, activity_csv, activities,
      activity, activity_control_var, filter_control_var, ac_count, stack,
      printed, error, exit_status, dispatched, loop_completed>>

Times == 0..MaxTime

\* The sequences over S of at most n elements.
RECURSIVE SeqsUpTo(_, _)
SeqsUpTo(S, n) ==
    IF n = 0 THEN {<<>>} ELSE SeqsUpTo(S, n - 1) \cup [1..n -> S]

\* Lap messages: "timestamp" is the time the lap ended.
LapMessages ==
    {lap \in [start_time : Times, timestamp : Times] :
         lap.start_time <= lap.timestamp}

\* Record messages, in the order of the file (not necessarily of time).
RecordMessages == [timestamp : Times]

\* Session messages.
Sessions == [sport : {"cycling", "hiking"}, start_time : {0}]

\* The files FitFile(filename).parse() may hand over.
FitFiles ==
    [laps : SeqsUpTo(LapMessages, MaxLaps),
     records : SeqsUpTo(RecordMessages, MaxRecords)]

\* SPORT_MAP (line 33) and SPORT_MAP.get(sport, "Other") (line 134).
SPORT_MAP == [sport \in {"running", "cycling"} |->
                 IF sport = "running" THEN "Running" ELSE "Biking"]
SportName(sport) ==
    IF sport \in DOMAIN SPORT_MAP THEN SPORT_MAP[sport] ELSE "Other"

\* datetime.isoformat() of a timestamp, its minutes and seconds.
IsoFormat(t) == <<"T">> \o Digits(t \div 60, 2) \o <<":">> \o Digits(t % 60, 2)

InitFit ==
    /\ MainInit
    /\ args = [strava_export |-> EXPORT_DIR, output_dir |-> OUTPUT_DIR,
               filter_types |-> <<>>, filter_years |-> <<>>,
               filter_gear |-> <<>>, list_types |-> FALSE,
               list_gear |-> FALSE]
    /\ ncols = FilenameIndex + 1
    /\ nrows = 1
    /\ fit_file \in FitFiles
    /\ fit_pc = "convert_fit_tcx"
    /\ tcx_document = NoDocument

\* convert_fit_tcx, lines 162-167: the empty document with its Activities
\* element, then the file is parsed.
ConvertFitTcx ==
    /\ fit_pc = "convert_fit_tcx"
    /\ tcx_document' = [NoDocument EXCEPT !.Activities = TRUE]
    /\ fit_pc' = "add_tcx_activity"
    /\ UNCHANGED <<fit_file, mainvars>>

\* add_tcx_activity, lines 132-139: next() raises StopIteration when the
\* file has no session message; otherwise the Activity element is created.
AddTcxActivity ==
    /\ fit_pc = "add_tcx_activity"
    /\ \E session \in {<<>>} \cup {<<s>> : s \in Sessions} :
        IF session = <<>>
        THEN /\ fit_pc' = "StopIteration"
             /\ UNCHANGED tcx_document
        ELSE LET sport == SportName(session[1].sport)
                 identity == session[1].start_time
             IN  /\ tcx_document' =
                        [tcx_document EXCEPT !.Activity =
                            <<[Sport |-> sport,
                               Id |-> IsoFormat(identity) \o <<"Z">>]>>]
                 /\ fit_pc' = "lap"
    /\ UNCHANGED <<fit_file, mainvars>>

\* A half-open lap [start_time, end_time): the end of the lap left out.
InLap_HalfOpen(start_time, tts, end_time) ==
    start_time <= tts /\ tts < end_time

\* add_tcx_lap, line 125: start_time <= tts <= end_time.
InLap(start_time, tts, end_time) ==
    start_time <= tts /\ tts <= end_time

\* add_tcx_trackpoint, lines 80 and 87: the Time element of a Trackpoint;
\* "record" remembers the position in the file of the message it was made of.
AddTcxTrackpoint(position, trackpoint) ==
    [Time |-> IsoFormat(trackpoint.timestamp) \o <<"Z">>,
     record |-> position]

\* add_tcx_lap, lines 123-127: the for loop over all the record messages,
\* from position i on; the Trackpoint elements it appends, in order.
RECURSIVE ScanRecords(_, _, _, _)
ScanRecords(records, i, start_time, end_time) ==
    IF i > Len(records) THEN <<>>
    ELSE LET trackpoint == records[i]
             tts == trackpoint.timestamp
         IN  (IF InLap(start_time, tts, end_time)
              THEN <<AddTcxTrackpoint(i, trackpoint)>>
              ELSE <<>>)
                 \o ScanRecords(records, i + 1, start_time, end_time)

\* add_tcx_activity, lines 141-142, and add_tcx_lap, lines 110-127: the lap
\* loop binds the next lap message and add_tcx_lap appends its Lap element,
\* scanning the record messages from the first one.
AddTcxLap ==
    /\ fit_pc = "lap"
    /\ Len(tcx_document.Lap) < Len(fit_file.laps)
    /\ LET lap == fit_file.laps[Len(tcx_document.Lap) + 1]
           start_time == lap.start_time
           end_time == lap.timestamp
           lapelem ==
               [StartTime |-> IsoFormat(start_time) \o <<"Z">>,
                Track |-> ScanRecords(fit_file.records, 1,
                                      start_time, end_time)]
       IN  tcx_document' =
               [tcx_document EXCEPT !.Lap = Append(@, lapelem)]
    /\ UNCHANGED <<fit_pc, fit_file, mainvars>>

\* The lap loop runs out (line 141) and convert_fit_tcx returns the document
\* (line 169).
ReturnTcxDocument ==
    /\ fit_pc = "lap"
    /\ Len(tcx_document.Lap) = Len(fit_file.laps)
    /\ fit_pc' = "returned"
    /\ UNCHANGED <<tcx_document, fit_file, mainvars>>

NextFit ==
    \/ ConvertFitTcx
    \/ AddTcxActivity
    \/ AddTcxLap
    \/ ReturnTcxDocument

SpecFit == InitFit /\ [][NextFit]_vars



\* ------------------------------------------------------------------ claims
ConversionErrors == {"StopIteration", "ConverterError"}

\* The schema's column count: the table has to reach the filename column.
ExpectedColumnCount == FilenameIndex + 1

\* A temporary file of check_zip or convert_activity (the manifest's is the
\* one with the .csv suffix), or gps_track_convert's intermediate .tcx.
ConversionTemporary(f) ==
    \/ MatchAt(f, 1, TMP_DIR \o <<"/">>) /\ ~EndsWith(f, DOT_CSV)
    \/ MatchAt(f, 1, OUTPUT_DIR \o <<"/">>) /\ EndsWith(f, DOT_TCX)

ManifestTemporaries ==
    {f \in files : MatchAt(f, 1, TMP_DIR \o <<"/">>) /\ EndsWith(f, DOT_CSV)}

OutputFiles == {f \in files : MatchAt(f, 1, OUTPUT_DIR \o <<"/">>)}

OwnedTemporaries == {stack[i].temp : i \in DOMAIN stack}

\* C1: no run is ended by the failure of one activity's conversion (the
\* failing activity is skipped and the loop goes on to the later rows).
C1_ErrorIsolation == ~(pc = "done" /\ error \in ConversionErrors)

\* C2: each iteration of the conversion loop on a row with a file name hands
\* the row to check_zip if and only if the three filter predicates hold for
\* it, and otherwise adds exactly one to the filtered counter; nothing else
\* changes the counter or dispatches; each predicate holds for every row
\* when its filter is empty; rows are dispatched in manifest order.
PassesAllFilters(a) ==
    /\ matches_filter_types(a, args.filter_types)
    /\ matches_filter_years(Strftime(DateFormat(a.date)), args.filter_years)
    /\ matches_filter_gear(a, args.filter_gear)

EmptyFilterPasses ==
    \A row \in RowValues :
        /\ matches_filter_types(row, <<>>)
        /\ matches_filter_gear(row, <<>>)
        /\ matches_filter_years(Strftime(DateFormat(row.date)), <<>>)
        /\ args.filter_types = <<>> /\ args.filter_years = <<>>
               /\ args.filter_gear = <<>>
           => PassesAllFilters(row)

IterationFilters ==
    IF activity_control_var' # activity_control_var /\ pc = "loop"
    THEN (error' = "none" /\ activity'.filename # <<>>) =>
            IF PassesAllFilters(activity')
            THEN /\ dispatched' = Append(dispatched, activity_control_var'[2])
                 /\ filter_control_var' = filter_control_var
                 /\ stack'[1].fn = "check_zip"
                 /\ pc' = "convert"
            ELSE /\ dispatched' = dispatched
                 /\ filter_control_var'
                        = PyInt(filter_control_var[2] + 1)
                 /\ pc' = "loop"
    ELSE pc # "mode" => UNCHANGED <<filter_control_var, dispatched>>

ManifestOrder ==
    \A i, j \in DOMAIN dispatched : i < j => dispatched[i] < dispatched[j]

C2_FilterGate ==
    /\ [](EmptyFilterPasses /\ ManifestOrder)
    /\ [][IterationFilters]_vars

\* C2 witness: with a gear filter set, one row was rejected and a later
\* row was dispatched.
C2_Witness ==
    /\ args.filter_gear # <<>>
    /\ IsInt(filter_control_var)
    /\ filter_control_var[2] = 1
    /\ dispatched = <<2>>

\* C3: every temporary file of the conversion that exists belongs to a call
\* that is still running (none survives the exit of the call that made it).
C3_TempCleanup ==
    \A f \in files : ConversionTemporary(f) => f \in OwnedTemporaries

\* C4: descriptors are built only from a table that has the expected
\* column count (any other table fails the load).
C4_SchemaCheck ==
    (activities.loaded /\ activities.activity_count > 0)
        => ncols = ExpectedColumnCount

\* C5: convert_activity on a name whose suffix is none of .fit, .tcx, .gpx
\* and their .gz forms prints the diagnostic, raises nothing, creates no
\* file and returns; while such a row is being converted nothing raises and
\* nothing appears at the destination, and control comes back to the loop.
UnrecognizedSuffix(name) ==
    \A t \in TerminalSuffixes :
        ~EndsWith(name, t) /\ ~EndsWith(name, t \o DOT_GZ)

UnrecognizedStep ==
    (/\ pc = "convert"
     /\ Top.fn = "convert_activity"
     /\ Top.at = "entry"
     /\ UnrecognizedSuffix(Top.source))
        => /\ error' = "none"
           /\ Top.source \in printed'.unrecognized
           /\ files' = files
           /\ Top.target \notin files'
           /\ stack' = Pop(1)

UnrecognizedRow ==
    (pc = "convert" /\ UnrecognizedSuffix(activity.filename))
        => /\ error' = "none"
           /\ pc' \in {"convert", "loop"}
           /\ OutputFiles' = OutputFiles
           /\ pc' = "loop" =>
                 /\ printed'.unrecognized # {}
                 /\ activity_control_var' = activity_control_var
                 /\ \A f \in files' : ~ConversionTemporary(f)

C5_UnrecognizedSkipped == [][UnrecognizedStep /\ UnrecognizedRow]_vars

\* C5 witness: after the diagnostic for the first row, the second row has
\* been handed to check_zip.
C5_Witness ==
    /\ printed.unrecognized # {}
    /\ dispatched = <<1, 2>>
    /\ pc = "convert"
    /\ Top.fn = "check_zip"
    /\ Top.at = "entry"

\* C6 as stated: a listing flag with an output directory or with any filter
\* ends the run with a non-zero status, the manifest not loaded and nothing
\* converted.
ListingFlag == args.list_types \/ args.list_gear

C6_AnyFilterIsUsageError ==
    (/\ pc \notin {"extract_zip", "mode"}
     /\ ListingFlag
     /\ \/ args.output_dir # <<>>
        \/ args.filter_types # <<>>
        \/ args.filter_years # <<>>
        \/ args.filter_gear # <<>>)
        => /\ pc = "done"
           /\ exit_status # 0
           /\ ~printed.listing
           /\ ~activities.loaded
           /\ dispatched = <<>>

\* C6 amended: a listing flag with an output directory or with a type filter
\* ends the run with a non-zero status (the usage error, status 2, when the
\* input path could be opened) before the manifest is loaded and with
\* nothing converted; no listing run converts or writes an output file.
C6_ListingExclusive ==
    /\ (/\ pc \notin {"extract_zip", "mode"}
        /\ ListingFlag
        /\ args.output_dir # <<>> \/ args.filter_types # <<>>)
           => /\ pc = "done"
              /\ exit_status # 0
              /\ ~printed.listing
              /\ ~activities.loaded
              /\ files = InitialFiles
              /\ dispatched = <<>>
              /\ error # "FileNotFoundError" =>
                    /\ printed.usage
                    /\ error = "SystemExit"
                    /\ exit_status = UsageExitStatus
    /\ ListingFlag => dispatched = <<>> /\ OutputFiles = {}

\* C6 witness: --list-gear with a type filter has ended in the usage error.
C6_Witness ==
    /\ pc = "done"
    /\ printed.usage
    /\ args.list_gear
    /\ ~args.list_types
    /\ args.filter_types # <<>>
    /\ args.output_dir = <<>>

\* C7: a run that ends without a usage error, with the input opened, the
\* manifest loaded, every date parsed and no conversion failed has printed
\* the summary line and raised nothing.
C7_ReachesSummary ==
    (/\ pc = "done"
     /\ error \notin {"SystemExit", "FileNotFoundError", "IndexError",
                      "KeyError", "ValueError"}
     /\ error \notin ConversionErrors)
        => error = "none" /\ printed.summary # <<>>

\* C8: no file that existed before the run is ever deleted.
C8_InputsKept == InitialFiles \subseteq files

\* C9: in archive mode the manifest's temporary file exists while the loop
\* runs and is gone once the loop has run out of rows.
C9_ManifestTempLifetime ==
    zip_file =>
        /\ pc \in {"loop", "convert"} => ManifestTemporaries # {}
        /\ loop_completed => ManifestTemporaries = {}

\* C10 as stated: a terminal-format file under any number n >= 1 of .gz
\* layers never ends in the unrecognized state.
WrappedTerminal(name, layers) ==
    \E t \in TerminalSuffixes, n \in layers : EndsWith(name, Gzipped(t, n))

AtConvertEntry ==
    pc = "convert" /\ Top.fn = "convert_activity" /\ Top.at = "entry"

PeelStep ==
    (AtConvertEntry /\ WrappedTerminal(Top.source, {1}))
        => LET callee == stack'[Len(stack')]
           IN  /\ Len(stack') = Len(stack) + 1
               /\ callee.fn = "convert_activity"
               /\ callee.at = "entry"
               /\ callee.target = Top.target
               /\ callee.source \notin files
               /\ files' = files \cup {callee.source}
               /\ stack'[Len(stack)].temp = callee.source
               /\ \E t \in TerminalSuffixes :
                     /\ EndsWith(Top.source, t \o DOT_GZ)
                     /\ EndsWith(callee.source, t)
               /\ error' = "none"

PeelReturn ==
    (pc = "convert" /\ Top.fn = "convert_activity" /\ Top.at = "called")
        => /\ Top.temp \in files
           /\ files' = files \ {Top.temp}
           /\ stack' = Pop(1)

DeepStep ==
    (AtConvertEntry /\ WrappedTerminal(Top.source, 2..MaxGzLayers))
        => /\ Top.source \in printed'.unrecognized
           /\ files' = files
           /\ stack' = Pop(1)

TempsOfRunningCallsExist ==
    \A i \in DOMAIN stack : stack[i].temp # <<>> => stack[i].temp \in files

EmittedUnder(k) ==
    {tcx_document.Lap[k].Track[j].record :
         j \in DOMAIN tcx_document.Lap[k].Track}

\* C11: for every Lap element add_tcx_lap has appended and every record
\* message of the file, the lap's track holds a Trackpoint made of that
\* record if and only if lap.start_time <= record.timestamp <=
\* lap.timestamp, both ends included; every Trackpoint carries the time of
\* its record, no record is emitted twice under one lap and the Trackpoints
\* of a lap are in the order of the file; a record at the boundary two
\* consecutive laps share is under both.
C11_LapMembership ==
    /\ Len(tcx_document.Lap) <= Len(fit_file.laps)
    /\ \A k \in DOMAIN tcx_document.Lap :
        LET lap == fit_file.laps[k]
            track == tcx_document.Lap[k].Track
        IN  /\ \A i \in DOMAIN fit_file.records :
                i \in EmittedUnder(k)
                    <=> /\ lap.start_time <= fit_file.records[i].timestamp
                        /\ fit_file.records[i].timestamp <= lap.timestamp
            /\ \A j \in DOMAIN track :
                /\ track[j].record \in DOMAIN fit_file.records
                /\ track[j].Time =
                       IsoFormat(fit_file.records[track[j].record].timestamp)
                           \o <<"Z">>
            /\ \A j1, j2 \in DOMAIN track :
                j1 < j2 => track[j1].record < track[j2].record
    /\ \A k \in DOMAIN tcx_document.Lap :
        (k + 1) \in DOMAIN tcx_document.Lap
            /\ fit_file.laps[k].timestamp = fit_file.laps[k + 1].start_time
        => \A i \in DOMAIN fit_file.records :
               fit_file.records[i].timestamp = fit_file.laps[k].timestamp
                   => i \in EmittedUnder(k) \cap EmittedUnder(k + 1)

\* C11 witness: the document is complete; two consecutive laps of positive
\* length share a boundary, a record at that boundary is under both, a
\* later record of the file is under the second lap only, after it.
C11_Witness ==
    /\ fit_pc = "returned"
    /\ \E k \in DOMAIN tcx_document.Lap :
        /\ (k + 1) \in DOMAIN tcx_document.Lap
        /\ fit_file.laps[k].start_time < fit_file.laps[k].timestamp
        /\ fit_file.laps[k].timestamp = fit_file.laps[k + 1].start_time
        /\ fit_file.laps[k + 1].start_time < fit_file.laps[k + 1].timestamp
        /\ \E i, i2 \in DOMAIN fit_file.records :
            /\ i < i2
            /\ fit_file.records[i].timestamp = fit_file.laps[k].timestamp
            /\ i \in EmittedUnder(k) \cap EmittedUnder(k + 1)
            /\ i2 \in EmittedUnder(k + 1) \ EmittedUnder(k)
            /\ Len(tcx_document.Lap[k + 1].Track) = 2
            /\ tcx_document.Lap[k + 1].Track[1].record = i
            /\ tcx_document.Lap[k + 1].Track[2].record = i2

=============================================================================
